---- MODULE Spec2Model ----
(***************************************************************************)
(* Tree-routed networks (multipath-nn): the routing recursion of           *)
(* scripts/lib/net_types.py (DSNet, AcNet, CRNet) and of the older         *)
(* lib/nets.py (DSRouting, CRRouting), the error mapping and the gradient  *)
(* scaling wrapper.                                                        *)
(*                                                                         *)
(* Numbers are exact rationals <<n, d>> (d > 0, lowest terms), with the    *)
(* two IEEE results of a division by zero kept apart: NaN = <<0, 0>> for   *)
(* 0/0 and Inf = <<1, 0>> for x/0.  Router outputs are drawn in units of   *)
(* tau * ln 2, so that exp(router.x / tau) is the exact power of two       *)
(* 2^k; float32 flushes 2^-k to 0 from k = ExpUnderflow on, which is the   *)
(* only rounding the model keeps (it is what makes a visitation            *)
(* probability exactly 0).                                                 *)
(***************************************************************************)
EXTENDS Integers, Sequences, FiniteSets, TLC

\* ------------------------------------------------------------------ bounds
MaxNodes == 5        \* layers of a tree, routing runs
MaxTrainNodes == 3   \* layers of a tree, single training or validation run
MaxEMNodes == 2      \* layers of a tree, sequences of runs
MaxCalls == 3        \* training and validation runs of a sequence
MaxRaceNodes == 2    \* layers of a tree, training runs with the reads of c_err_cor
NPts == 2            \* examples of a minibatch

\* float32: 2^-k is 0 for k >= 150 (exp underflow inside tf.nn.softmax)
ExpUnderflow == 150

\* --------------------------------------------------------------- rationals
RECURSIVE Gcd(_, _)
Gcd(a, b) == IF b = 0 THEN a ELSE Gcd(b, a % b)

Abs(a) == IF a < 0 THEN -a ELSE a

NaN == <<0, 0>>
Inf == <<1, 0>>
Zero == <<0, 1>>
One == <<1, 1>>

IsFinite(a) == a[2] # 0

\* n/d in lowest terms, d # 0
Rat(n, d) ==
    LET g == Gcd(Abs(n), Abs(d))
        s == IF d < 0 THEN -1 ELSE 1
    IN <<(s * n) \div g, (s * d) \div g>>

IntR(n) == <<n, 1>>

RAdd(a, b) ==
    IF IsFinite(a) /\ IsFinite(b)
    THEN Rat(a[1] * b[2] + b[1] * a[2], a[2] * b[2])
    ELSE IF a = NaN \/ b = NaN THEN NaN ELSE Inf

RNeg(a) == IF IsFinite(a) THEN <<-a[1], a[2]>> ELSE a

RSub(a, b) == RAdd(a, RNeg(b))

RMul(a, b) ==
    IF IsFinite(a) /\ IsFinite(b)
    THEN Rat(a[1] * b[1], a[2] * b[2])
    ELSE IF a = NaN \/ b = NaN \/ a = Zero \/ b = Zero THEN NaN ELSE Inf

\* IEEE division: 0/0 is NaN, x/0 is Inf
RDiv(a, b) ==
    IF ~(IsFinite(a) /\ IsFinite(b))
    THEN (IF IsFinite(a) /\ b = Inf THEN Zero ELSE NaN)
    ELSE IF b[1] = 0 THEN (IF a[1] = 0 THEN NaN ELSE Inf)
    ELSE Rat(a[1] * b[2], a[2] * b[1])

\* comparisons are false on NaN, as in IEEE
RLe(a, b) == IsFinite(a) /\ IsFinite(b) /\ a[1] * b[2] <= b[1] * a[2]
RLt(a, b) == IsFinite(a) /\ IsFinite(b) /\ a[1] * b[2] < b[1] * a[2]
REq(a, b) == IsFinite(a) /\ IsFinite(b) /\ a = b

RMin(a, b) == IF RLe(a, b) THEN a ELSE b

\* a sequence given by its entries, each computed once
Tup(f) == f \o <<>>

RECURSIVE RSumTo(_, _)
RSumTo(s, n) == IF n = 0 THEN Zero ELSE RAdd(RSumTo(s, n - 1), s[n])

\* sum(...) / tf.reduce_sum over a sequence
RSum(s) == RSumTo(s, Len(s))

RECURSIVE RMinTo(_, _)
RMinTo(s, n) == IF n = 1 THEN s[1] ELSE RMin(RMinTo(s, n - 1), s[n])

RECURSIVE RMaxTo(_, _)
RMaxTo(s, n) ==
    IF n = 1 THEN s[1]
    ELSE LET m == RMaxTo(s, n - 1) IN IF RLe(s[n], m) THEN m ELSE s[n]

RECURSIVE Pow2(_)
Pow2(k) == IF k = 0 THEN 1 ELSE 2 * Pow2(k - 1)

\* ------------------------------------------------------------------- state
VARIABLES
    \* the network, fixed once built
    sinks,      \* the tree: layer -> its sinks, layers numbered as net.layers yields them
    variant,    \* "ds" | "ac" | "cr" (net_types.py); "DSRouting" | "CRRouting" (nets.py)
    eps,        \* hypers.eps
    k_cpt,      \* hypers.k_cpt
    lambda_em,  \* hypers.lambda_em
    alpha_rtr,  \* hypers.alpha_rtr
    unused,     \* the trainable parameters the cost does not depend on (gradient None)
    \* the variables, which outlive a run
    mu_tr, mu_vl, d_tr, d_vl,   \* layer -> error-mapping statistics
    params,     \* parameter -> how many times the optimizer has modified it
    \* the driver
    calls_left, \* training and validation runs still to come
    pc,         \* "idle", or the run in progress: "eval", "train", "validate"
    x0,         \* the minibatch fed to the run
    \* the tensors of the run in progress
    p_tr, p_ev, \* layer -> per-example visitation probability
    pi_tr, pi_ev, \* switch -> per-example policy row
    c_ev, c_opt, \* layer -> per-example cost aggregates (ac, cr)
    mu_batch,   \* layer -> the batch mean loss of add_error_mapping
    c_err_cor,  \* layer -> per-example corrected loss
    cor_div,    \* layer -> divisions executed to evaluate c_err_cor
    cor_branch, \* layer -> the branch the tf.cond of a training run took, "none" before
    cor_read,   \* layer -> the <<mu_tr, d_tr>> its division observed in a training run
    \* the operations of the run in progress
    done,       \* the assignments that have executed: <<variable, layer>>
    grads,      \* parameter -> its gradient (NoGrad: None), once computed
    applied,    \* parameter -> the gradient apply_gradients has applied to it
    modified,   \* parameter -> how many times this run has modified it
    \* history
    seen_tr,    \* layer -> the batch means its update_mu_tr has consumed so far
    prev_tr     \* layer -> <<mu_tr, d_tr>> as the run in progress found them

netvars == <<sinks, variant, eps, k_cpt, lambda_em, alpha_rtr, unused>>
emvars == <<mu_tr, mu_vl, d_tr, d_vl, seen_tr>>
tensors == <<x0, p_tr, p_ev, pi_tr, pi_ev, c_ev, c_opt, mu_batch, c_err_cor, cor_div,
             cor_branch, cor_read, prev_tr>>
opvars == <<done, grads, applied, modified>>
vars == <<netvars, emvars, params, calls_left, pc, tensors, opvars>>

\* ------------------------------------------------------------------- trees
\* A tree of n layers is its parent vector in preorder: layer 1 is the root
\* and the parent of layer i+1 lies on the path from the root to layer i.
RECURSIVE OnPath(_, _, _)
OnPath(par, a, i) == a = i \/ (i > 1 /\ OnPath(par, a, par[i]))

ParentVectors(n) ==
    {par \in [1..n -> 0..(n - 1)] :
        /\ par[1] = 0
        /\ \A i \in 2..n : par[i] \in 1..(i - 1)
        /\ \A i \in 2..(n - 1) : OnPath(par, par[i + 1], i)}

RECURSIVE SeqOfSet(_)
SeqOfSet(S) ==
    IF S = {} THEN <<>>
    ELSE LET m == CHOOSE a \in S : \A b \in S : a <= b
         IN <<m>> \o SeqOfSet(S \ {m})

SinksOf(par, n) == [l \in 1..n |-> SeqOfSet({i \in 2..n : par[i] = l})]

TreesUpTo(m) == UNION {{SinksOf(par, n) : par \in ParentVectors(n)} : n \in 1..m}
Trees == TreesUpTo(MaxNodes)

Layers == 1..Len(sinks)
Switches == {l \in Layers : Len(sinks[l]) > 1}
Leaves == {l \in Layers : Len(sinks[l]) = 0}

\* ------------------------------------------------------------------ inputs
\* An example of the minibatch fixes what the (black-box) layers compute
\* from it: every router's output row and every layer's loss.
LogitPatterns == <<"tie", "last", "cold">>
CostPatterns == <<"up", "down">>
Examples == 1..(Len(LogitPatterns) * Len(CostPatterns))
lg(e) == LogitPatterns[((e - 1) % Len(LogitPatterns)) + 1]
ce(e) == CostPatterns[((e - 1) \div Len(LogitPatterns)) + 1]

\* the order of the examples in a batch does not matter to any operation
Batches == {b \in [1..NPts -> Examples] : \A k \in 1..(NPts - 1) : b[k] <= b[k + 1]}

\* router.x[k, :] / tau in units of ln 2 (nets.py: the routing layer's logits or l_est)
router_x(l, e) ==
    [i \in 1..Len(sinks[l]) |->
        CASE lg(e) = "tie" -> 0
          [] lg(e) = "last" -> (IF i = Len(sinks[l]) THEN 1 ELSE 0)
          [] lg(e) = "cold" -> (IF i = 1 THEN 0 ELSE -ExpUnderflow)]

c_err(l, e) == IF ce(e) = "up" THEN IntR(l) ELSE IntR(MaxNodes + 1 - l)

n_ops(l) == l
router_n_ops(l) == 1

Eps == {Zero, <<1, 2>>, One}
KCpt == {-1, 1}
Variants == {"ds", "ac", "cr", "DSRouting", "CRRouting"}

\* ---------------------------------------------------------------- policies
MaxOf(x) == CHOOSE m \in {x[i] : i \in 1..Len(x)} : \A i \in 1..Len(x) : x[i] <= m
MinOf(x) == CHOOSE m \in {x[i] : i \in 1..Len(x)} : \A i \in 1..Len(x) : m <= x[i]

\* tf.nn.softmax in float32: exp(x - max) / sum(exp(x - max)), a term 2^-k with
\* k >= ExpUnderflow being exactly 0
softmax(x) ==
    LET m == MaxOf(x)
        e == Tup([i \in 1..Len(x) |->
                IF m - x[i] >= ExpUnderflow THEN Zero ELSE <<1, Pow2(m - x[i])>>])
        s == RSum(e)
    IN Tup([i \in 1..Len(x) |-> RDiv(e[i], s)])

\* tf.argmax: the first index of the maximum
argmax(x) == CHOOSE i \in 1..Len(x) : x[i] = MaxOf(x) /\ \A j \in 1..(i - 1) : x[j] < MaxOf(x)

RECURSIVE n_leaves(_)
n_leaves(l) ==
    IF Len(sinks[l]) = 0 THEN 1
    ELSE LET c == Tup([i \in 1..Len(sinks[l]) |-> IntR(n_leaves(sinks[l][i]))])
         IN RSum(c)[1]

w_struct(l) == Tup([i \in 1..Len(sinks[l]) |-> Rat(n_leaves(sinks[l][i]), n_leaves(l))])

\* mutant: the exploration term forgotten
route_pi_tr_no_prior(l, x) ==
    Tup([i \in 1..Len(x) |-> RMul(RSub(One, eps), softmax(x)[i])])

\* mutant: the hard policy blended with the prior, no softmax
route_pi_tr_hard(l, x) ==
    Tup([i \in 1..Len(x) |->
        RAdd(RMul(RSub(One, eps), IF i = argmax(x) THEN One ELSE Zero),
             RMul(eps, w_struct(l)[i]))])

\* net_types.py: the same two statements in route_sinks_ds_dyn, _ac_dyn and _cr_dyn
route_pi_tr(l, x) ==
    Tup([i \in 1..Len(x) |->
        RAdd(RMul(RSub(One, eps), softmax(x)[i]), RMul(eps, w_struct(l)[i]))])

route_pi_ev(x) == Tup([i \in 1..Len(x) |-> IF i = argmax(x) THEN One ELSE Zero])

\* nets.py
DSRouting_pi_tr(x) ==
    Tup([i \in 1..Len(x) |->
        RAdd(RDiv(eps, IntR(Len(x))), RMul(RSub(One, eps), softmax(x)[i]))])

DSRouting_pi_ev(x) ==
    LET t == DSRouting_pi_tr(x)
    IN Tup([i \in 1..Len(x) |-> IF t[i] = RMaxTo(t, Len(x)) THEN One ELSE Zero])

CRRouting_pi_ev(x) == Tup([i \in 1..Len(x) |-> IF x[i] = MinOf(x) THEN One ELSE Zero])

CRRouting_pi_tr(x) ==
    Tup([i \in 1..Len(x) |->
        RAdd(RDiv(eps, IntR(Len(x))), RMul(RSub(One, eps), CRRouting_pi_ev(x)[i]))])

\* ----------------------------------------------------------------- routing
\* Every routing function returns the tensors it has set on the layers of
\* the subtree of l: layer -> [p_tr, p_ev, pi_tr, pi_ev, c_ev, c_opt], each
\* with one entry per example of the batch b (<<>>: the attribute is not set).
Pts == 1..NPts
ones == Tup([k \in Pts |-> One])

RECURSIVE MergeTo(_, _)
MergeTo(sub, n) == IF n = 0 THEN <<>> ELSE MergeTo(sub, n - 1) @@ sub[n]

Scaled(p, pi, i) == Tup([k \in Pts |-> RMul(p[k], pi[k][i])])

RECURSIVE route_ds(_, _, _, _)
route_sinks_ds_stat(b, l, ptr, pev) ==
    LET sub == Tup([i \in 1..Len(sinks[l]) |-> route_ds(b, sinks[l][i], ptr, pev)])
    IN (l :> [p_tr |-> ptr, p_ev |-> pev, pi_tr |-> <<>>, pi_ev |-> <<>>,
              c_ev |-> <<>>, c_opt |-> <<>>])
       @@ MergeTo(sub, Len(sinks[l]))

route_sinks_ds_dyn(b, l, ptr, pev) ==
    LET n == Len(sinks[l])
        ptr_ == Tup([k \in Pts |-> route_pi_tr(l, router_x(l, b[k]))])
        pev_ == Tup([k \in Pts |-> route_pi_ev(router_x(l, b[k]))])
        sub == Tup([i \in 1..n |->
                  route_ds(b, sinks[l][i], Scaled(ptr, ptr_, i), Scaled(pev, pev_, i))])
    IN (l :> [p_tr |-> ptr, p_ev |-> pev, pi_tr |-> ptr_, pi_ev |-> pev_,
              c_ev |-> <<>>, c_opt |-> <<>>])
       @@ MergeTo(sub, n)

route_ds(b, l, ptr, pev) ==
    IF Len(sinks[l]) < 2 THEN route_sinks_ds_stat(b, l, ptr, pev)
    ELSE route_sinks_ds_dyn(b, l, ptr, pev)

\* c_err + k_cpt * n_ops
OwnCost(b, l, k, ops) == RAdd(c_err(l, b[k]), IntR(k_cpt * ops))

c_ev_stat(b, l, sub) ==
    Tup([k \in Pts |->
        RAdd(OwnCost(b, l, k, n_ops(l)),
             RSum(Tup([i \in 1..Len(sinks[l]) |-> sub[i][sinks[l][i]].c_ev[k]])))])

c_opt_stat(b, l, sub) ==
    Tup([k \in Pts |->
        RAdd(OwnCost(b, l, k, n_ops(l)),
             RSum(Tup([i \in 1..Len(sinks[l]) |-> sub[i][sinks[l][i]].c_opt[k]])))])

c_ev_dyn(b, l, pev_, sub) ==
    Tup([k \in Pts |->
        RAdd(OwnCost(b, l, k, n_ops(l) + router_n_ops(l)),
             RSum(Tup([i \in 1..Len(sinks[l]) |->
                     RMul(pev_[k][i], sub[i][sinks[l][i]].c_ev[k])])))])

\* mutant: the worst sink instead of the best
c_opt_dyn_max(b, l, sub) ==
    Tup([k \in Pts |->
        RAdd(OwnCost(b, l, k, n_ops(l) + router_n_ops(l)),
             RMaxTo(Tup([i \in 1..Len(sinks[l]) |-> sub[i][sinks[l][i]].c_opt[k]]),
                    Len(sinks[l])))])

c_opt_dyn(b, l, sub) ==
    Tup([k \in Pts |->
        RAdd(OwnCost(b, l, k, n_ops(l) + router_n_ops(l)),
             RMinTo(Tup([i \in 1..Len(sinks[l]) |-> sub[i][sinks[l][i]].c_opt[k]]),
                    Len(sinks[l])))])

\* route_ac; route_cr is the same code but for its auxiliary loss (c_cre for c_rtr)
RECURSIVE route_ac(_, _, _, _)
route_sinks_ac_stat(b, l, ptr, pev) ==
    LET sub == Tup([i \in 1..Len(sinks[l]) |-> route_ac(b, sinks[l][i], ptr, pev)])
    IN (l :> [p_tr |-> ptr, p_ev |-> pev, pi_tr |-> <<>>, pi_ev |-> <<>>,
              c_ev |-> c_ev_stat(b, l, sub), c_opt |-> c_opt_stat(b, l, sub)])
       @@ MergeTo(sub, Len(sinks[l]))

route_sinks_ac_dyn(b, l, ptr, pev) ==
    LET n == Len(sinks[l])
        ptr_ == Tup([k \in Pts |-> route_pi_tr(l, router_x(l, b[k]))])
        pev_ == Tup([k \in Pts |-> route_pi_ev(router_x(l, b[k]))])
        sub == Tup([i \in 1..n |->
                  route_ac(b, sinks[l][i], Scaled(ptr, ptr_, i), Scaled(pev, pev_, i))])
    IN (l :> [p_tr |-> ptr, p_ev |-> pev, pi_tr |-> ptr_, pi_ev |-> pev_,
              c_ev |-> c_ev_dyn(b, l, pev_, sub), c_opt |-> c_opt_dyn(b, l, sub)])
       @@ MergeTo(sub, n)

route_ac(b, l, ptr, pev) ==
    IF Len(sinks[l]) < 2 THEN route_sinks_ac_stat(b, l, ptr, pev)
    ELSE route_sinks_ac_dyn(b, l, ptr, pev)

\* nets.py, Net.__init__.link: the policy is uniform unless the layer's
\* link_forward sets it; the layers with two sinks or more are the routing layers
layer_pi_tr(l, x) ==
    IF Len(sinks[l]) < 2 THEN Tup([i \in 1..Len(sinks[l]) |-> Rat(1, Len(sinks[l]))])
    ELSE IF variant = "DSRouting" THEN DSRouting_pi_tr(x) ELSE CRRouting_pi_tr(x)

layer_pi_ev(l, x) ==
    IF Len(sinks[l]) < 2 THEN Tup([i \in 1..Len(sinks[l]) |-> Rat(1, Len(sinks[l]))])
    ELSE IF variant = "DSRouting" THEN DSRouting_pi_ev(x) ELSE CRRouting_pi_ev(x)

RECURSIVE link(_, _, _, _)
link(b, l, ptr, pev) ==
    LET n == Len(sinks[l])
        ptr_ == Tup([k \in Pts |-> layer_pi_tr(l, router_x(l, b[k]))])
        pev_ == Tup([k \in Pts |-> layer_pi_ev(l, router_x(l, b[k]))])
        sub == Tup([i \in 1..n |->
                  link(b, sinks[l][i], Scaled(ptr, ptr_, i), Scaled(pev, pev_, i))])
    IN (l :> [p_tr |-> ptr, p_ev |-> pev, pi_tr |-> ptr_, pi_ev |-> pev_,
              c_ev |-> <<>>, c_opt |-> <<>>])
       @@ MergeTo(sub, n)

\* the tensors of one evaluation of the graph on the batch b
Forward(b) ==
    CASE variant = "ds" -> route_ds(b, 1, ones, ones)
      [] variant \in {"ac", "cr"} -> route_ac(b, 1, ones, ones)
      [] OTHER -> link(b, 1, ones, ones)

\* ----------------------------------------------------------- error mapping
\* mu_batch = sum(p_tr * c_err) / sum(p_tr)
mu_batch_of(b, l, ptr) ==
    RDiv(RSum(Tup([k \in Pts |-> RMul(ptr[k], c_err(l, b[k]))])), RSum(ptr))

\* lambda * mu + (1 - lambda) * mu_batch
new_mu(mu, l) == RAdd(RMul(lambda_em, mu), RMul(RSub(One, lambda_em), mu_batch[l]))

\* a normalizer that accumulates 1 instead of 1 - lambda
new_d_biased(d) == RAdd(RMul(lambda_em, d), One)

\* lambda * d + 1 - lambda
new_d(d) == RSub(RAdd(RMul(lambda_em, d), One), lambda_em)

\* a predicate that looks at the training normalizer only
cor_pred_tr_only(l) == RLt(Zero, d_tr[l])

\* the predicate of the tf.cond
cor_pred(l) == RLt(Zero, RMul(d_tr[l], d_vl[l]))

\* tf.cond builds the two divisions inside its true branch: they execute
\* only when the predicate holds
c_err_cor_of(l, e) ==
    IF cor_pred(l)
    THEN RAdd(RSub(c_err(l, e), RDiv(mu_tr[l], d_tr[l])), RDiv(mu_vl[l], d_vl[l]))
    ELSE c_err(l, e)

cor_div_of(l) == IF cor_pred(l) THEN 2 ELSE 0

\* ------------------------------------------------------------ optimization
\* one parameter per layer and one per router
Params == {<<"layer", l>> : l \in Layers} \cup {<<"router", l>> : l \in Switches}

\* params_list_rec(l) and params_list_rec(l.router); a layer with fewer than
\* two sinks has no router
params_list_rec(what, l) ==
    IF what = "layer" THEN {<<"layer", l>>}
    ELSE IF l \in Switches THEN {<<"router", l>>} ELSE {}

\* tf.reduce_mean(tf.square(p))
MeanSq(p) == RDiv(RSum(Tup([k \in Pts |-> RMul(p[k], p[k])])), IntR(NPts))

\* scales that ignore alpha_rtr
lr_scales_no_alpha(th) == <<One, MeanSq(p_tr[th[2]])>>

\* A learning-rate scale c / sqrt(r) is kept as the pair <<c, r>>.
\* lr_scales: the entries of the routers are merged over those of the layers
lr_scales(th) ==
    LET l == th[2]
    IN IF th \in params_list_rec("router", l)
       THEN <<alpha_rtr, MeanSq(p_tr[l])>>
       ELSE <<One, MeanSq(p_tr[l])>>

NoGrad == <<>>

\* the per-example derivative of the loss of the owning layer (autodiff, a black box)
dloss(th, e) == IntR(e - 3)

\* optimizer.compute_gradients(cost): the cost is the mean over the batch of
\* the losses weighted by p_tr; a parameter outside the cost graph gets None
compute_gradients(th) ==
    IF th \in unused THEN NoGrad
    ELSE RDiv(RSum(Tup([k \in Pts |-> RMul(p_tr[th[2]][k], dloss(th, x0[k]))])),
              IntR(NPts))

\* lr_scales[th] * g
scaled_grad(th) == <<RMul(lr_scales(th)[1], grads[th]), lr_scales(th)[2]>>

\* no control dependencies at all
no_control_deps == {}

\* with tf.control_dependencies([l.update_mu_tr for l in self.layers]): every
\* operation minimize_expected creates waits for these updates
control_deps == Layers

UpdatesDone == \A l \in control_deps : <<"mu_tr", l>> \in done /\ <<"d_tr", l>> \in done

\* --------------------------------------------------------------- the runs
NoTensors == [l \in Layers |-> <<>>]
NoOps == [th \in Params |-> <<>>]
NoMods == [th \in Params |-> 0]
NoBranch == [l \in Layers |-> "none"]
NetTypes == {"ds", "ac", "cr"}
Lambdas == {Zero, <<1, 2>>, One}

\* the variables after construction (add_error_mapping), nothing running
InitState ==
    /\ mu_tr = [l \in Layers |-> Zero] /\ mu_vl = [l \in Layers |-> Zero]
    /\ d_tr = [l \in Layers |-> Zero] /\ d_vl = [l \in Layers |-> Zero]
    /\ seen_tr = [l \in Layers |-> {}]
    /\ params = NoMods
    /\ pc = "idle"
    /\ x0 = <<>>
    /\ p_tr = NoTensors /\ p_ev = NoTensors
    /\ pi_tr = NoTensors /\ pi_ev = NoTensors
    /\ c_ev = NoTensors /\ c_opt = NoTensors
    /\ mu_batch = NoTensors /\ c_err_cor = NoTensors /\ cor_div = NoTensors
    /\ cor_branch = NoBranch /\ cor_read = NoTensors /\ prev_tr = NoTensors
    /\ done = {} /\ grads = <<>> /\ applied = NoOps /\ modified = NoMods

\* every tree and every routing variant, evaluated only
InitRoute ==
    /\ sinks \in Trees
    /\ variant \in Variants
    /\ eps \in Eps
    /\ k_cpt \in (IF variant \in {"ac", "cr"} THEN KCpt ELSE {0})
    /\ lambda_em = <<1, 2>> /\ alpha_rtr = One /\ unused = {}
    /\ calls_left = 0
    /\ InitState

\* a small network and one training or validation run
InitTrain ==
    /\ sinks \in TreesUpTo(MaxTrainNodes)
    /\ variant \in NetTypes
    /\ eps \in {Zero, <<1, 2>>}
    /\ k_cpt = 0
    /\ lambda_em = <<1, 2>> /\ alpha_rtr = IntR(2)
    /\ unused \in {{}} \cup {{th} : th \in {q \in Params : q[2] = 1}}
    /\ calls_left = 1
    /\ InitState

\* a network without switches and a sequence of runs
InitEM ==
    /\ sinks \in TreesUpTo(MaxEMNodes)
    /\ variant = "ds"
    /\ eps = <<1, 2>>
    /\ k_cpt = 0
    /\ lambda_em \in Lambdas /\ alpha_rtr = One /\ unused = {}
    /\ calls_left = MaxCalls
    /\ InitState

Init == InitTrain \/ InitEM

\* the tensors of a run on the batch b; the corrected loss is fetched by
\* evaluations only
Feed(b, fetch_cor) ==
    \E r \in {Forward(b)} :
        /\ x0' = b
        /\ p_tr' = [l \in Layers |-> r[l].p_tr]
        /\ p_ev' = [l \in Layers |-> r[l].p_ev]
        /\ pi_tr' = [l \in Layers |-> r[l].pi_tr]
        /\ pi_ev' = [l \in Layers |-> r[l].pi_ev]
        /\ c_ev' = [l \in Layers |-> r[l].c_ev]
        /\ c_opt' = [l \in Layers |-> r[l].c_opt]
        /\ mu_batch' = IF variant \in NetTypes
                       THEN [l \in Layers |-> mu_batch_of(b, l, r[l].p_tr)]
                       ELSE NoTensors
        /\ c_err_cor' = IF fetch_cor
                        THEN [l \in Layers |-> Tup([k \in Pts |-> c_err_cor_of(l, b[k])])]
                        ELSE NoTensors
        /\ cor_div' = IF fetch_cor THEN [l \in Layers |-> cor_div_of(l)] ELSE NoTensors
        /\ cor_branch' = NoBranch /\ cor_read' = NoTensors
        /\ prev_tr' = [l \in Layers |-> <<mu_tr[l], d_tr[l]>>]

Clear ==
    /\ pc' = "idle"
    /\ x0' = <<>>
    /\ p_tr' = NoTensors /\ p_ev' = NoTensors
    /\ pi_tr' = NoTensors /\ pi_ev' = NoTensors
    /\ c_ev' = NoTensors /\ c_opt' = NoTensors
    /\ mu_batch' = NoTensors /\ c_err_cor' = NoTensors /\ cor_div' = NoTensors
    /\ cor_branch' = NoBranch /\ cor_read' = NoTensors /\ prev_tr' = NoTensors
    /\ done' = {} /\ grads' = <<>> /\ applied' = NoOps /\ modified' = NoMods

\* net.eval(target, x0, y): one evaluation of the linked graph
Eval ==
    /\ pc = "idle"
    /\ \E b \in Batches : Feed(b, variant \in NetTypes)
    /\ pc' = "eval"
    /\ UNCHANGED <<netvars, emvars, params, calls_left, opvars>>

\* the evaluation returns: its tensors are gone, the variables stay
Return ==
    /\ pc = "eval"
    /\ Clear
    /\ UNCHANGED <<netvars, emvars, params, calls_left>>

\* the driver runs net.train on a batch
RunTrain ==
    /\ pc = "idle" /\ calls_left > 0
    /\ \E b \in Batches : Feed(b, FALSE)
    /\ pc' = "train"
    /\ calls_left' = calls_left - 1
    /\ UNCHANGED <<netvars, emvars, params, opvars>>

\* the driver runs net.validate on a batch
RunValidate ==
    /\ pc = "idle" /\ calls_left > 0
    /\ \E b \in Batches : Feed(b, FALSE)
    /\ pc' = "validate"
    /\ calls_left' = calls_left - 1
    /\ UNCHANGED <<netvars, emvars, params, opvars>>

\* the two assignments of update_mu_tr, in either order
AssignMuTr(l) ==
    /\ pc = "train" /\ <<"mu_tr", l>> \notin done
    /\ mu_tr' = [mu_tr EXCEPT ![l] = new_mu(mu_tr[l], l)]
    /\ seen_tr' = [seen_tr EXCEPT ![l] = @ \cup {mu_batch[l]}]
    /\ done' = done \cup {<<"mu_tr", l>>}
    /\ UNCHANGED <<netvars, mu_vl, d_tr, d_vl, params, calls_left, pc, tensors,
                   grads, applied, modified>>

AssignDTr(l) ==
    /\ pc = "train" /\ <<"d_tr", l>> \notin done
    /\ d_tr' = [d_tr EXCEPT ![l] = new_d(d_tr[l])]
    /\ done' = done \cup {<<"d_tr", l>>}
    /\ UNCHANGED <<netvars, mu_tr, mu_vl, d_vl, seen_tr, params, calls_left, pc,
                   tensors, grads, applied, modified>>

\* the two assignments of update_mu_vl
AssignMuVl(l) ==
    /\ pc = "validate" /\ <<"mu_vl", l>> \notin done
    /\ mu_vl' = [mu_vl EXCEPT ![l] = new_mu(mu_vl[l], l)]
    /\ done' = done \cup {<<"mu_vl", l>>}
    /\ UNCHANGED <<netvars, mu_tr, d_tr, d_vl, seen_tr, params, calls_left, pc,
                   tensors, grads, applied, modified>>

AssignDVl(l) ==
    /\ pc = "validate" /\ <<"d_vl", l>> \notin done
    /\ d_vl' = [d_vl EXCEPT ![l] = new_d(d_vl[l])]
    /\ done' = done \cup {<<"d_vl", l>>}
    /\ UNCHANGED <<netvars, mu_tr, mu_vl, d_tr, seen_tr, params, calls_left, pc,
                   tensors, grads, applied, modified>>

\* the gradient operations of minimize_expected
ComputeGradients ==
    /\ pc = "train" /\ grads = <<>>
    /\ UpdatesDone
    /\ grads' = [th \in Params |-> compute_gradients(th)]
    /\ UNCHANGED <<netvars, emvars, params, calls_left, pc, tensors, done, applied,
                   modified>>

\* apply_gradients: one update per pair of scaled_grads, the pairs whose
\* gradient is None left out
ApplyGradient(th) ==
    /\ pc = "train" /\ grads # <<>>
    /\ UpdatesDone
    /\ grads[th] # NoGrad /\ applied[th] = <<>>
    /\ applied' = [applied EXCEPT ![th] = scaled_grad(th)]
    /\ params' = [params EXCEPT ![th] = @ + 1]
    /\ modified' = [modified EXCEPT ![th] = @ + 1]
    /\ UNCHANGED <<netvars, emvars, calls_left, pc, tensors, done, grads>>

\* net.train has run: every operation it depends on has executed
ReturnTrain ==
    /\ pc = "train"
    /\ \A l \in Layers : <<"mu_tr", l>> \in done /\ <<"d_tr", l>> \in done
    /\ grads # <<>>
    /\ \A th \in Params : grads[th] # NoGrad => applied[th] # <<>>
    /\ Clear
    /\ UNCHANGED <<netvars, emvars, params, calls_left>>

ReturnValidate ==
    /\ pc = "validate"
    /\ \A l \in Layers : <<"mu_vl", l>> \in done /\ <<"d_vl", l>> \in done
    /\ Clear
    /\ UNCHANGED <<netvars, emvars, params, calls_left>>

Next ==
    \/ Eval \/ Return
    \/ RunTrain \/ RunValidate
    \/ \E l \in Layers : AssignMuTr(l) \/ AssignDTr(l) \/ AssignMuVl(l) \/ AssignDVl(l)
    \/ ComputeGradients
    \/ \E th \in Params : ApplyGradient(th)
    \/ ReturnTrain \/ ReturnValidate

Spec == Init /\ [][Next]_vars

NextRoute == Eval \/ Return
SpecRoute == InitRoute /\ [][NextRoute]_vars

\* ---------------------------------- the reads of c_err_cor in a training run
\* DSNet's cost is built from c_err_cor before the control-dependency block
\* is entered, so the operations of the tf.cond carry no ordering edge to the
\* assignments of update_mu_tr: within a training run they execute at any
\* moment before the gradients, which consume their result. tf.assign writes
\* the variable in place, so each operation observes what the variables hold
\* at the moment it executes.

\* the predicate d_tr * d_vl > 0 selects the branch
CorPred(l) ==
    /\ pc = "train" /\ variant = "ds"
    /\ cor_branch[l] = "none"
    /\ cor_branch' = [cor_branch EXCEPT ![l] = IF cor_pred(l) THEN "true" ELSE "false"]
    /\ UNCHANGED <<netvars, emvars, params, calls_left, pc, opvars,
                   x0, p_tr, p_ev, pi_tr, pi_ev, c_ev, c_opt, mu_batch, c_err_cor,
                   cor_div, cor_read, prev_tr>>

\* the true branch: the division mu_tr / d_tr observes both variables
CorDivide(l) ==
    /\ pc = "train" /\ variant = "ds"
    /\ cor_branch[l] = "true" /\ cor_read[l] = <<>>
    /\ cor_read' = [cor_read EXCEPT ![l] = <<mu_tr[l], d_tr[l]>>]
    /\ UNCHANGED <<netvars, emvars, params, calls_left, pc, opvars,
                   x0, p_tr, p_ev, pi_tr, pi_ev, c_ev, c_opt, mu_batch, c_err_cor,
                   cor_div, cor_branch, prev_tr>>

\* c_err_cor of every layer is available
CorDone ==
    \A l \in Layers :
        cor_branch[l] = "false" \/ (cor_branch[l] = "true" /\ cor_read[l] # <<>>)

\* the gradients of DSNet's cost consume c_err_cor
GradientsOfCost == CorDone /\ ComputeGradients

\* a small DSNet and a sequence of training and validation runs
InitRace ==
    /\ sinks \in TreesUpTo(MaxRaceNodes)
    /\ variant = "ds"
    /\ eps = <<1, 2>>
    /\ k_cpt = 0
    /\ lambda_em = <<1, 2>> /\ alpha_rtr = One /\ unused = {}
    /\ calls_left = MaxCalls
    /\ InitState

NextRace ==
    \/ RunTrain \/ RunValidate
    \/ \E l \in Layers : AssignMuTr(l) \/ AssignDTr(l) \/ AssignMuVl(l) \/ AssignDVl(l)
    \/ \E l \in Layers : CorPred(l) \/ CorDivide(l)
    \/ GradientsOfCost
    \/ \E th \in Params : ApplyGradient(th)
    \/ ReturnTrain \/ ReturnValidate

SpecRace == InitRace /\ [][NextRace]_vars

\* ------------------------------------------------------- routing properties
Ran == pc # "idle"

\* the first index of the largest (smallest) entry of a router output row
FirstMax(x) ==
    CHOOSE i \in 1..Len(x) :
        (\A j \in 1..Len(x) : x[j] <= x[i]) /\ (\A j \in 1..(i - 1) : x[j] < x[i])
FirstMin(x) ==
    CHOOSE i \in 1..Len(x) :
        (\A j \in 1..Len(x) : x[i] <= x[j]) /\ (\A j \in 1..(i - 1) : x[i] < x[j])

\* CRRouting's row is its cost estimate l_est; every other router's row is a score
FirstBest(x) == IF variant = "CRRouting" THEN FirstMin(x) ELSE FirstMax(x)

OneHotAt(row, i) == \A j \in 1..Len(row) : row[j] = (IF j = i THEN One ELSE Zero)

\* C1: at every switch and for every example, pi_ev is 1 at the first
\* arg-max (CRRouting: arg-min) index of the router output and 0 elsewhere,
\* ties included.
C1_EvalPolicyOneHotAtFirst ==
    Ran => \A l \in Switches : \A k \in Pts :
              OneHotAt(pi_ev[l][k], FirstBest(router_x(l, x0[k])))

\* C2: at every switch and for every example, the entries of pi_tr sum to 1.
C2_TrainPolicySumsToOne ==
    Ran => \A l \in Switches : \A k \in Pts : RSum(pi_tr[l][k]) = One

\* net_types.py alone: both hold there (the argmax picks one index, and the
\* softmax and the prior are each normalised)
NetTypesPolicies ==
    (Ran /\ variant \in {"ds", "ac", "cr"}) =>
        \A l \in Switches : \A k \in Pts :
            /\ OneHotAt(pi_ev[l][k], FirstMax(router_x(l, x0[k])))
            /\ RSum(pi_tr[l][k]) = One

InsideUnit(e) == RLt(Zero, e) /\ RLt(e, One)

\* C3 as stated: in the decision-smoothing and actor variants, for eps in
\* (0,1), pi_tr[k][i] >= eps / n_sinks at every switch.
C3_FloorEpsOverNSinks ==
    (Ran /\ variant \in {"ds", "ac"} /\ InsideUnit(eps)) =>
        \A l \in Switches : \A k \in Pts : \A i \in 1..Len(sinks[l]) :
            RLe(RDiv(eps, IntR(Len(sinks[l]))), pi_tr[l][k][i])

LeavesUnder(l) == {m \in Leaves : OnPath([j \in Layers |->
                      IF j = 1 THEN 0
                      ELSE CHOOSE q \in Layers : \E i \in 1..Len(sinks[q]) : sinks[q][i] = j],
                                       l, m)}

\* C3 amended: the floor is eps times the structural prior of the sink, the
\* share of the switch's leaves that lie under sink i.
C3_FloorEpsWStruct ==
    (Ran /\ variant \in {"ds", "ac"} /\ InsideUnit(eps)) =>
        \A l \in Switches : \A k \in Pts : \A i \in 1..Len(sinks[l]) :
            RLe(RMul(eps, Rat(Cardinality(LeavesUnder(sinks[l][i])),
                              Cardinality(LeavesUnder(l)))),
                pi_tr[l][k][i])

\* a switch whose sinks lead to unequal numbers of leaves, with an entry of
\* pi_tr below eps / n_sinks
C3_Witness ==
    /\ Ran /\ variant \in {"ds", "ac"} /\ InsideUnit(eps)
    /\ \E l \in Switches : \E k \in Pts : \E i \in 1..Len(sinks[l]) :
        /\ RLt(pi_tr[l][k][i], RDiv(eps, IntR(Len(sinks[l]))))
        /\ Cardinality(LeavesUnder(sinks[l][i])) * Len(sinks[l])
              < Cardinality(LeavesUnder(l))

\* C4: after route_ac / route_cr, c_opt <= c_ev at every layer and for every example.
C4_OptLeEv ==
    (Ran /\ variant \in {"ac", "cr"}) =>
        \A l \in Layers : \A k \in Pts : RLe(c_opt[l][k], c_ev[l][k])

\* a tree with a pass-through layer and a switch at which the oracle is
\* strictly cheaper than the routed cost
C4_Witness ==
    /\ Ran /\ variant \in {"ac", "cr"}
    /\ \E l \in Layers : Len(sinks[l]) = 1
    /\ \E l \in Switches : \E k \in Pts : RLt(c_opt[l][k], c_ev[l][k])

\* C5 as stated: in the cost-regression variants pi_ev is one-hot at the
\* branch of least predicted cost and pi_tr = eps * w_struct + (1 - eps) * pi_ev.
C5_HardBlend ==
    (Ran /\ variant \in {"cr", "CRRouting"}) =>
        \A l \in Switches : \A k \in Pts :
            /\ OneHotAt(pi_ev[l][k], FirstBest(router_x(l, x0[k])))
            /\ \A i \in 1..Len(sinks[l]) :
                pi_tr[l][k][i] =
                    RAdd(RMul(eps, Rat(Cardinality(LeavesUnder(sinks[l][i])),
                                       Cardinality(LeavesUnder(l)))),
                         RMul(RSub(One, eps), pi_ev[l][k][i]))

\* what pi_tr holds beyond the prior: pi_tr[i] - eps * w_struct[i]
SoftPart(l, k, i) ==
    RSub(pi_tr[l][k][i],
         RMul(eps, Rat(Cardinality(LeavesUnder(sinks[l][i])), Cardinality(LeavesUnder(l)))))

\* C5 amended: in CRNet pi_ev is one-hot at the first largest router output
\* (the router regresses the negated cost, so the least predicted cost) and
\* pi_tr = eps * w_struct + (1 - eps) * softmax(router.x / tau): the soft
\* parts sum to 1 - eps and stand in the ratio 2^(x_j - x_i), a part whose
\* exponential underflows being 0.  In the older CRRouting pi_tr is the hard
\* blend with the uniform prior, eps / n_sinks + (1 - eps) * pi_ev.
C5_SoftmaxBlend ==
    /\ (Ran /\ variant = "cr") =>
        \A l \in Switches : \A k \in Pts :
            LET x == router_x(l, x0[k])
                n == Len(sinks[l])
                top == x[FirstMax(x)]
            IN /\ OneHotAt(pi_ev[l][k], FirstMin([i \in 1..n |-> -x[i]]))
               /\ RSum([i \in 1..n |-> SoftPart(l, k, i)]) = RSub(One, eps)
               /\ \A i \in 1..n :
                    IF top - x[i] >= ExpUnderflow
                    THEN SoftPart(l, k, i) = Zero
                    ELSE SoftPart(l, k, FirstMax(x))
                            = RMul(IntR(Pow2(top - x[i])), SoftPart(l, k, i))
    /\ (Ran /\ variant = "CRRouting") =>
        \A l \in Switches : \A k \in Pts : \A i \in 1..Len(sinks[l]) :
            pi_tr[l][k][i] = RAdd(RDiv(eps, IntR(Len(sinks[l]))),
                                  RMul(RSub(One, eps), pi_ev[l][k][i]))

\* a CRNet switch whose training policy is not the hard blend
C5_Witness ==
    /\ Ran /\ variant = "cr" /\ InsideUnit(eps)
    /\ \E l \in Switches : \E k \in Pts : \E i \in 1..Len(sinks[l]) :
        /\ pi_ev[l][k][i] = Zero
        /\ RLt(Zero, SoftPart(l, k, i))

\* ------------------------------------------------- error-mapping properties
Pos(a) == RLt(Zero, a)

\* C6: an evaluation of c_err_cor, after whatever updates have run since
\* construction, yields c_err - mu_tr/d_tr + mu_vl/d_vl when d_tr and d_vl are
\* both strictly positive (stated without division: the correction times
\* d_tr * d_vl is mu_vl * d_tr - mu_tr * d_vl), and yields the raw c_err, no
\* division executed, when one of them is 0.
C6_CorrectedLoss ==
    (pc = "eval" /\ variant \in NetTypes) =>
        \A l \in Layers : \A k \in Pts :
            IF Pos(d_tr[l]) /\ Pos(d_vl[l])
            THEN RMul(RSub(c_err_cor[l][k], c_err(l, x0[k])), RMul(d_tr[l], d_vl[l]))
                     = RSub(RMul(mu_vl[l], d_tr[l]), RMul(mu_tr[l], d_vl[l]))
            ELSE /\ d_tr[l] = Zero \/ d_vl[l] = Zero
                 /\ c_err_cor[l][k] = c_err(l, x0[k])
                 /\ cor_div[l] = 0

\* an evaluation that corrects the loss
C6_Witness ==
    /\ pc = "eval"
    /\ \E l \in Layers :
           /\ Pos(d_tr[l]) /\ Pos(d_vl[l])
           /\ c_err_cor[l][1] # c_err(l, x0[1])
           /\ cor_div[l] = 2

\* the update of layer l is not half done
Settled(l) == (<<"mu_tr", l>> \in done) <=> (<<"d_tr", l>> \in done)

\* C7: with 0 <= lambda < 1, once a layer has been updated n >= 1 times and
\* every one of its updates has observed the same finite batch mean L,
\* 0 < d_tr <= 1 and mu_tr = L * d_tr.
C7_ConstantLoss ==
    \A l \in Layers :
        (/\ RLe(Zero, lambda_em) /\ RLt(lambda_em, One)
         /\ Settled(l)
         /\ Cardinality(seen_tr[l]) = 1)
        => \A L \in seen_tr[l] :
               IsFinite(L) =>
                   /\ Pos(d_tr[l]) /\ RLe(d_tr[l], One)
                   /\ mu_tr[l] = RMul(L, d_tr[l])

\* two or more updates with the same batch mean, 0 < lambda
C7_Witness ==
    \E l \in Layers :
        /\ pc = "idle" /\ Pos(lambda_em) /\ RLt(lambda_em, One)
        /\ Cardinality(seen_tr[l]) = 1
        /\ RLt(RSub(One, lambda_em), d_tr[l])
        /\ RLt(d_tr[l], One)
        /\ mu_tr[l] # Zero

\* ---------------------------------------------------- training properties
\* C8: in a training run, when a parameter has been modified the update_mu_tr
\* of every layer (both of its assignments) has executed, and no parameter is
\* modified more than once in the run.
C8_UpdatesBeforeApply ==
    pc = "train" =>
        /\ (\E th \in Params : modified[th] > 0)
               => \A l \in Layers : <<"mu_tr", l>> \in done /\ <<"d_tr", l>> \in done
        /\ \A th \in Params : modified[th] <= 1

\* a network of several layers, one parameter modified, another one pending
C8_Witness ==
    /\ pc = "train" /\ Cardinality(Layers) >= 2
    /\ grads # <<>>
    /\ \E th, ph \in Params :
           /\ modified[th] = 1
           /\ grads[ph] # NoGrad /\ modified[ph] = 0

SumSq(p) == RSum(Tup([k \in Pts |-> RMul(p[k], p[k])]))

\* C9: a parameter whose gradient is None is never modified; the gradient
\* applied to any other parameter is c * g / sqrt(r), where r is the mean over
\* the minibatch of the squared p_tr of the owning layer (r = 1 when p_tr is 1
\* throughout) and c is alpha_rtr for a router parameter and 1 for a layer
\* parameter.
C9_ScaledGradients ==
    /\ \A th \in unused : params[th] = 0 /\ applied[th] = <<>>
    /\ \A th \in Params :
           applied[th] # <<>> =>
               /\ grads[th] # NoGrad
               /\ applied[th][1] =
                      RMul(IF th[1] = "router" THEN alpha_rtr ELSE One, grads[th])
               /\ RMul(applied[th][2], IntR(NPts)) = SumSq(p_tr[th[2]])
               /\ (\A k \in Pts : p_tr[th[2]][k] = One) => applied[th][2] = One

\* a run that skips one parameter and applies a router gradient and a layer
\* gradient scaled by something else than 1
C9_Witness ==
    /\ pc = "train" /\ unused # {}
    /\ \E th, ph \in Params :
           /\ th[1] = "router" /\ applied[th] # <<>> /\ applied[th][1] # Zero
           /\ ph[1] = "layer" /\ applied[ph] # <<>>
           /\ applied[ph][2] \notin {Zero, One}

\* C10: in a training or validation run, a layer whose p_tr is 0 for every
\* example gets a finite batch mean and a finite gradient scale.
C10_NoDivideByZero ==
    pc \in {"train", "validate"} =>
        \A l \in Layers :
            (\A k \in Pts : p_tr[l][k] = Zero) =>
                /\ IsFinite(mu_batch[l])
                /\ IsFinite(RDiv(One, MeanSq(p_tr[l])))

\* ------------------------------------------------ visitation properties
\* the recursion step: what a layer hands to its sinks
HandsDown(l, k) ==
    \A i \in 1..Len(sinks[l]) :
        IF Len(sinks[l]) < 2
        THEN /\ p_tr[sinks[l][i]][k] = p_tr[l][k]
             /\ p_ev[sinks[l][i]][k] = p_ev[l][k]
        ELSE /\ p_tr[sinks[l][i]][k] = RMul(p_tr[l][k], pi_tr[l][k][i])
             /\ p_ev[sinks[l][i]][k] = RMul(p_ev[l][k], pi_ev[l][k][i])

\* the p_tr of the leaves sum to 1, one leaf has p_ev = 1 and the others 0
LeafMass(k) ==
    /\ RSum(Tup([j \in 1..Cardinality(Leaves) |-> p_tr[SeqOfSet(Leaves)[j]][k]])) = One
    /\ \E m \in Leaves :
           \A l \in Leaves : p_ev[l][k] = (IF l = m THEN One ELSE Zero)

\* C11: in every run the root has p_tr = p_ev = 1, every layer hands its
\* p_tr and p_ev to its sinks (unchanged with fewer than 2 sinks, times the
\* policy column otherwise), and for every example the p_tr of the leaves sum
\* to 1 and exactly one leaf has p_ev = 1, all the others p_ev = 0.
C11_MassConserved ==
    Ran => \A k \in Pts :
              /\ p_tr[1][k] = One /\ p_ev[1][k] = One
              /\ \A l \in Layers : HandsDown(l, k)
              /\ LeafMass(k)

\* net_types.py alone: the conservation holds there
NetTypesMassConserved ==
    (Ran /\ variant \in NetTypes) =>
        \A k \in Pts :
            /\ p_tr[1][k] = One /\ p_ev[1][k] = One
            /\ \A l \in Layers : HandsDown(l, k)
            /\ LeafMass(k)

\* nets.py: the recursion step itself holds, the leaf totals do not follow
NetsRecursionStep ==
    (Ran /\ variant \notin NetTypes) =>
        \A k \in Pts :
            /\ p_tr[1][k] = One /\ p_ev[1][k] = One
            /\ \A l \in Layers : HandsDown(l, k)

\* ---------------------------------------------------- read consistency
\* C12: in a training run, the pair <<mu_tr, d_tr>> that the correction of a
\* layer is computed from is the pair the run found at its start: never one
\* value from before and one from after the run's update_mu_tr, and never
\* the values that update has written.
C12_ReadsPreviousPair ==
    pc = "train" =>
        \A l \in Layers : cor_read[l] # <<>> => cor_read[l] = prev_tr[l]

====
